---- MODULE Spec2Model ----
(***************************************************************************)
(* Fare estimation engine of furniture-remover (src/pricing_module.py) and  *)
(* the callers of it in src/booking.py and src/admin.py.                   *)
(*                                                                         *)
(* Numbers.  Python floats are modelled as exact fixed-point integers:     *)
(*   - a runtime factor (traffic, peak, time) is held in twentieths, so    *)
(*     their product total_multiplier is held in 1/MultDen = 1/8000;       *)
(*   - the context factor is held in fiftieths (0.98 = 49, 1.08 = 54);     *)
(*   - "det" money  = rupees * MultDen            (deterministic totals),  *)
(*     "fine" money = rupees * MultDen * CtxDen   (hybrid and final price),*)
(*     "cents"      = rupees * 100                (round(x, 2) results).   *)
(* Distances are whole kilometres (negative ones included).                *)
(* Strings that the code only looks up in a dict are TLA+ strings; the     *)
(* time_of_day string, which the code searches for ':' and splits, is a    *)
(* sequence of one-character strings.                                      *)
(***************************************************************************)
EXTENDS Integers, Sequences, FiniteSets, TLC

VARIABLES
    _model,           \* module global _model: None or the fitted regressor
    _label_encoders,  \* module global _label_encoders: None or the encoders
    _features,        \* module global _features: None or the feature list
    call,             \* the call in progress / just answered, or None
    ret,              \* what that call gave back (a result or an exception)
    first,            \* history: final_price first returned for ProbeArgs
    threads,          \* request threads: where each one is in its call
    objects,          \* the regressor and dict objects the threads created
    users,            \* table user: the row of id i is users[i]
    bookings,         \* table booking: the row of id i is bookings[i]
    ratings           \* table rating, in the order the rows were added

vars == <<_model, _label_encoders, _features, call, ret, first, threads, objects,
          users, bookings, ratings>>

\* Python's None
None == [none |-> TRUE]

-----------------------------------------------------------------------------
(* Bounds of the model *)

\* the longest trip asked about, in km
MaxDistance == 35

-----------------------------------------------------------------------------
(* Fixed-point scales *)

FactorDen == 4 * 5
MultDen == FactorDen * FactorDen * FactorDen
CtxDen == 5 * 10
FineDen == MultDen * CtxDen
CentDen == 10 * 10
TenThousandths == CentDen * CentDen

Max2(a, b) == IF a >= b THEN a ELSE b
Min2(a, b) == IF a <= b THEN a ELSE b

\* Python round(): the number n / den rounded to a multiple of 1 / outDen, ties to
\* even; the result is in units of 1 / outDen.
RoundHalfEven(n, den, outDen) ==
    LET \* n / den = num / unit in units of 1 / outDen
        unit == IF den % outDen = 0 THEN den \div outDen ELSE den
        num  == IF den % outDen = 0 THEN n ELSE n * outDen
        q == num \div unit
        r == num % unit
    IN  IF 2 * r < unit THEN q
        ELSE IF 2 * r > unit THEN q + 1
        ELSE IF q % 2 = 0 THEN q ELSE q + 1

-----------------------------------------------------------------------------
(* Rate tables *)

TruckCats == {"SMALL", "MEDIUM", "LARGE"}

\* A rate table whose SMALL minimum charge is above the MEDIUM one.
DearSmallRates ==
    [SMALL  |-> [rate |-> 18, min |-> 800, max |-> 1500],
     MEDIUM |-> [rate |-> 25, min |-> 700, max |-> 2500],
     LARGE  |-> [rate |-> 35, min |-> 1200, max |-> 4000]]

KTM_RATES ==
    [SMALL  |-> [rate |-> 18, min |-> 400,  max |-> 1500],
     MEDIUM |-> [rate |-> 25, min |-> 700,  max |-> 2500],
     LARGE  |-> [rate |-> 35, min |-> 1200, max |-> 4000]]

LABOR_COST == [SMALL |-> 120, MEDIUM |-> 180, LARGE |-> 260]

SERVICE_FEE == [SMALL |-> 80, MEDIUM |-> 120, LARGE |-> 160]

FUEL_MAINTENANCE_PER_KM == [SMALL |-> 8, MEDIUM |-> 12, LARGE |-> 16]

\* dict.get(key, default)
DictGet(d, key, default) == IF key \in DOMAIN d THEN d[key] ELSE default

-----------------------------------------------------------------------------
(* _get_runtime_factors: the three multipliers, in twentieths *)

traffic_multipliers ==
    [Light |-> 20, Medium |-> 22, Heavy |-> 25, VeryHeavy |-> 28]

\* The source's key "Very Heavy" is written VeryHeavy here.
TrafficLevels == {"Light", "Medium", "Heavy", "VeryHeavy"}

\* Runtime factors with a peak surcharge of 1.2 and no Night discount.
RoundedFactors(traffic_level, time_period, is_peak_hour) ==
    [traffic_factor |-> DictGet(traffic_multipliers, traffic_level, 22),
     peak_factor    |-> IF is_peak_hour # 0 THEN 24 ELSE 20,
     time_factor    |-> 20]

_get_runtime_factors(traffic_level, time_period, is_peak_hour) ==
    [traffic_factor |-> DictGet(traffic_multipliers, traffic_level, 22),
     peak_factor    |-> IF is_peak_hour # 0 THEN 23 ELSE 20,
     time_factor    |-> IF time_period = "Night" THEN 19 ELSE 20]

-----------------------------------------------------------------------------
(* _deterministic_breakdown, _deterministic_price, _distance_fairness_floor *)

\* The distance taken as it was given, sign included.
SignedDistance(distance_km) == distance_km

\* max(float(distance_km), 0.0) of a number.
NonNegativeDistance(distance_km) == Max2(distance_km, 0)

\* Fields in rupees, except the factors (twentieths), total_multiplier
\* (1 / MultDen) and deterministic_total (det money).
_deterministic_breakdown(distance_km, truck_cat, traffic_level, time_period, is_peak_hour) ==
    LET distance == NonNegativeDistance(distance_km)
        rate == KTM_RATES[truck_cat].rate
        min_charge == KTM_RATES[truck_cat].min
        max_charge == KTM_RATES[truck_cat].max
        distance_fare == distance * rate
        fuel_maintenance == distance * DictGet(FUEL_MAINTENANCE_PER_KM, truck_cat, 10)
        labor == DictGet(LABOR_COST, truck_cat, 180)
        service_fee == DictGet(SERVICE_FEE, truck_cat, 120)
        subtotal_before_multiplier == distance_fare + fuel_maintenance + labor + service_fee
        f == _get_runtime_factors(traffic_level, time_period, is_peak_hour)
        total_multiplier == f.traffic_factor * f.peak_factor * f.time_factor
        raw_total == subtotal_before_multiplier * total_multiplier
        deterministic_total ==
            Min2(Max2(raw_total, min_charge * MultDen), max_charge * MultDen)
    IN  [distance_fare |-> distance_fare,
         fuel_maintenance |-> fuel_maintenance,
         labor |-> labor,
         service_fee |-> service_fee,
         subtotal_before_multiplier |-> subtotal_before_multiplier,
         traffic_factor |-> f.traffic_factor,
         peak_factor |-> f.peak_factor,
         time_factor |-> f.time_factor,
         total_multiplier |-> total_multiplier,
         deterministic_total |-> deterministic_total,
         min_charge |-> min_charge,
         max_charge |-> max_charge]

_deterministic_price(distance_km, truck_cat, traffic_level, time_period, is_peak_hour) ==
    _deterministic_breakdown(distance_km, truck_cat, traffic_level, time_period,
                             is_peak_hour).deterministic_total

per_km_floor == [SMALL |-> 40, MEDIUM |-> 60, LARGE |-> 85]

\* A floor that does not grow with distance.
FlatFloor(distance_km, truck_cat) ==
    Min2(KTM_RATES[truck_cat].min, KTM_RATES[truck_cat].max)

\* In rupees.
_distance_fairness_floor(distance_km, truck_cat) ==
    LET distance == NonNegativeDistance(distance_km)
        min_charge == KTM_RATES[truck_cat].min
        base_km == 2
        base_total == min_charge
        extra_km == Max2(0, distance - base_km)
        floor_total == base_total + extra_km * DictGet(per_km_floor, truck_cat, 60)
    IN  Min2(floor_total, KTM_RATES[truck_cat].max)

-----------------------------------------------------------------------------
(* Strings: time_of_day is a sequence of characters *)

Morning == <<"M", "o", "r", "n", "i", "n", "g">>
Afternoon == <<"A", "f", "t", "e", "r", "n", "o", "o", "n">>
Evening == <<"E", "v", "e", "n", "i", "n", "g">>
Night == <<"N", "i", "g", "h", "t">>

\* The literals of the list ['Morning', 'Afternoon', 'Evening', 'Night'].
PeriodLiterals ==
    [Morning |-> Morning, Afternoon |-> Afternoon, Evening |-> Evening, Night |-> Night]

TimePeriods == DOMAIN PeriodLiterals

DigitValue ==
    ("0" :> 0) @@ ("1" :> 1) @@ ("2" :> 2) @@ ("3" :> 3) @@ ("4" :> 4) @@
    ("5" :> 5) @@ ("6" :> 6) @@ ("7" :> 7) @@ ("8" :> 8) @@ ("9" :> 9)

\* ':' in s
HasColon(s) == \E i \in 1..Len(s) : s[i] = ":"

\* s.split(':')[0]: the text before the first ':' (all of s when there is none)
SplitHead(s) ==
    IF HasColon(s)
    THEN LET k == CHOOSE i \in 1..Len(s) :
                      s[i] = ":" /\ \A j \in 1..(i - 1) : s[j] # ":"
         IN  SubSeq(s, 1, k - 1)
    ELSE s

RECURSIVE DigitsValue(_)
DigitsValue(s) ==
    IF Len(s) = 0 THEN 0
    ELSE 10 * DigitsValue(SubSeq(s, 1, Len(s) - 1)) + DigitValue[s[Len(s)]]

\* int(s) for a string: an optional sign and one or more decimal digits give
\* the number; anything else raises ValueError.
PyInt(s) ==
    LET signed == Len(s) > 0 /\ s[1] \in {"+", "-"}
        body == IF signed THEN Tail(s) ELSE s
        wellFormed == Len(body) > 0 /\ \A i \in 1..Len(body) : body[i] \in DOMAIN DigitValue
    IN  IF ~wellFormed THEN [raised |-> TRUE, value |-> 0]
        ELSE [raised |-> FALSE,
              value |-> IF signed /\ s[1] = "-" THEN 0 - DigitsValue(body)
                        ELSE DigitsValue(body)]

-----------------------------------------------------------------------------
(* Input normalisation of predict_price and estimate_price_details *)

truck_map ==
    [small_vehicle |-> "SMALL", medium_vehicle |-> "MEDIUM", large_vehicle |-> "LARGE"]

traffic_map ==
    [light |-> "Light", medium |-> "Medium", heavy |-> "Heavy", very_heavy |-> "VeryHeavy"]

\* A lookup that falls back to the smallest category.
NormalizeTruckToSmall(truck_category) == DictGet(truck_map, truck_category, "SMALL")

\* truck_map.get(truck_category, 'MEDIUM')
NormalizeTruck(truck_category) == DictGet(truck_map, truck_category, "MEDIUM")

\* traffic_map.get(traffic_level, 'Medium')
NormalizeTraffic(traffic_level) == DictGet(traffic_map, traffic_level, "Medium")

\* The if/elif chain on the parsed hour.
HourPeriod(hour) ==
    IF 5 <= hour /\ hour < 12 THEN "Morning"
    ELSE IF 12 <= hour /\ hour < 17 THEN "Afternoon"
    ELSE IF 17 <= hour /\ hour < 20 THEN "Evening"
    ELSE "Night"

\* time_of_day -> time_period, or the ValueError of int().
NormalizeTime(time_of_day) ==
    IF HasColon(time_of_day)
    THEN LET hour == PyInt(SplitHead(time_of_day))
         IN  IF hour.raised THEN [raised |-> TRUE, time_period |-> ""]
             ELSE [raised |-> FALSE, time_period |-> HourPeriod(hour.value)]
    ELSE [raised |-> FALSE,
          time_period |->
              IF \E p \in TimePeriods : PeriodLiterals[p] = time_of_day
              THEN CHOOSE p \in TimePeriods : PeriodLiterals[p] = time_of_day
              ELSE "Afternoon"]

-----------------------------------------------------------------------------
(* The training corpus, the label encoders and the fitted regressor *)

\* _generate_kathmandu_data draws 500 records whose labels come from these
\* lists; LabelEncoder.fit keeps the labels it saw, sorted.  The corpus is
\* taken to contain every label (a label is missing from 500 draws with
\* probability below 1e-22).
FittedEncoders ==
    [truck_category |-> <<"LARGE", "MEDIUM", "SMALL">>,
     traffic_level  |-> <<"Heavy", "Light", "Medium", "VeryHeavy">>,
     time_of_day    |-> <<"Afternoon", "Evening", "Morning", "Night">>]

FeatureList ==
    [columns |-> <<"distance_km", "truck_category", "traffic_level", "time_of_day",
                   "is_peak_hour">>]

\* LabelEncoder.transform([label])[0]: the 0-based position of the label among
\* the sorted classes, ValueError for a label never seen.
Transform(classes, label) ==
    IF \E i \in 1..Len(classes) : classes[i] = label
    THEN [raised |-> FALSE, code |-> (CHOOSE i \in 1..Len(classes) : classes[i] = label) - 1]
    ELSE [raised |-> TRUE, code |-> 0]

\* The fitted RandomForestRegressor is a function from a feature row to a
\* price.  The corpus is random, so the function differs from one training to
\* the next; the models drawn here are the trees with at most one split:
\* a row goes to leaf lo when its feature is <= threshold, else to leaf hi,
\* and a leaf predicts (leaf / CtxDen) times the deterministic price of the
\* row's own trip.  Leaves below, inside and above the [0.98, 1.08] band.
LeafRatios == {40, 51, 60}

SplitPoints == <<{7}, {0, 1}, {0, 1, 2}, {2}, {0}>>

ConstantModels ==
    {[feature |-> 1, threshold |-> 0, lo |-> a, hi |-> a] : a \in LeafRatios}

SplitModels ==
    UNION {{[feature |-> f, threshold |-> t, lo |-> a, hi |-> b] :
                t \in SplitPoints[f], a \in LeafRatios \ {51}, b \in LeafRatios \ {51}}
           : f \in 1..Len(SplitPoints)}

TrainedModels == ConstantModels \cup {m \in SplitModels : m.lo # m.hi}

\* _model.predict(X)[0] for the feature row X, in fine money.
ModelPredict(model, X) ==
    LET leaf == IF X[model.feature] <= model.threshold THEN model.lo ELSE model.hi
        own == _deterministic_price(X[1],
                                     FittedEncoders.truck_category[X[2] + 1],
                                     FittedEncoders.traffic_level[X[3] + 1],
                                     FittedEncoders.time_of_day[X[4] + 1],
                                     X[5])
    IN  leaf * own

\* Training on every call.
AlwaysTrain(model) == TRUE

\* `if _model is None:` of predict_price and estimate_price_details
NeedsTraining(model) == model = None

-----------------------------------------------------------------------------
(* estimate_price_details and predict_price: what a call gives back *)

Raised(exc) == [kind |-> "raised", exc |-> exc]

\* Line 422, in km.
reference_distance == 5

\* A row holding the request's own distance.
RequestFeatures(distance_km, truck_encoded, traffic_encoded, time_encoded, is_peak_hour) ==
    <<distance_km, truck_encoded, traffic_encoded, time_encoded, is_peak_hour>>

\* Lines 421-423: the feature row the model is asked about.  The request's
\* distance_km is in scope and is not used: the row holds reference_distance.
ReferenceFeatures(distance_km, truck_encoded, traffic_encoded, time_encoded, is_peak_hour) ==
    <<reference_distance, truck_encoded, traffic_encoded, time_encoded, is_peak_hour>>

\* The context factor left as the model gives it.
Unclipped(context_factor) == context_factor

\* Line 439: np.clip(context_factor, 0.98, 1.08), in fiftieths.
ClipContextFactor(context_factor) == Min2(Max2(context_factor, 49), 54)

\* The final price without the maximum_charge cap.
FinalPriceUncapped(hybrid_price, fair_floor, truck_cat) ==
    Max2(Max2(hybrid_price, fair_floor * FineDen), KTM_RATES[truck_cat].min * FineDen)

\* The final price without the fairness floor.
FinalPriceNoFloor(hybrid_price, fair_floor, truck_cat) ==
    Min2(Max2(hybrid_price, KTM_RATES[truck_cat].min * FineDen),
         KTM_RATES[truck_cat].max * FineDen)

\* Lines 444-447, in fine money.
FinalPrice(hybrid_price, fair_floor, truck_cat) ==
    LET min_charge == KTM_RATES[truck_cat].min
        max_price == KTM_RATES[truck_cat].max
        final_price == Max2(Max2(hybrid_price, fair_floor * FineDen), min_charge * FineDen)
    IN  Min2(final_price, max_price * FineDen)

\* Lines 411-468 of estimate_price_details: the price and its breakdown for
\* normalised inputs.  final_price, fair_floor and the money fields of the
\* breakdown are in cents, context_factor and total_multiplier in 1/10000,
\* the three factors in hundredths.
PriceDetails(model, distance_km, truck_cat, traffic_lev, time_period, truck_encoded, traffic_encoded, time_encoded, is_peak_hour) ==
    LET breakdown == _deterministic_breakdown(distance_km, truck_cat, traffic_lev,
                                              time_period, is_peak_hour)
        deterministic == breakdown.deterministic_total
        ref_features == ReferenceFeatures(distance_km, truck_encoded, traffic_encoded,
                                          time_encoded, is_peak_hour)
        ml_ref == ModelPredict(model, ref_features)
        deterministic_ref == _deterministic_price(reference_distance, truck_cat,
                                                  traffic_lev, time_period, is_peak_hour)
        raw_factor == IF deterministic_ref > 0 THEN ml_ref \div deterministic_ref
                      ELSE CtxDen
        context_factor == ClipContextFactor(raw_factor)
        hybrid_price == deterministic * context_factor
        fair_floor == _distance_fairness_floor(distance_km, truck_cat)
        final_price == FinalPrice(hybrid_price, fair_floor, truck_cat)
    IN  [kind |-> "details",
         final_price |-> RoundHalfEven(final_price, FineDen, CentDen),
         truck_category |-> truck_cat,
         time_period |-> time_period,
         traffic_level |-> traffic_lev,
         context_factor |-> RoundHalfEven(context_factor, CtxDen, TenThousandths),
         fair_floor |-> RoundHalfEven(fair_floor, 1, CentDen),
         breakdown |->
            [distance_fare |-> RoundHalfEven(breakdown.distance_fare, 1, CentDen),
             fuel_maintenance |-> RoundHalfEven(breakdown.fuel_maintenance, 1, CentDen),
             labor |-> RoundHalfEven(breakdown.labor, 1, CentDen),
             service_fee |-> RoundHalfEven(breakdown.service_fee, 1, CentDen),
             subtotal_before_multiplier |->
                 RoundHalfEven(breakdown.subtotal_before_multiplier, 1, CentDen),
             traffic_factor |-> RoundHalfEven(breakdown.traffic_factor, FactorDen, CentDen),
             peak_factor |-> RoundHalfEven(breakdown.peak_factor, FactorDen, CentDen),
             time_factor |-> RoundHalfEven(breakdown.time_factor, FactorDen, CentDen),
             total_multiplier |->
                 RoundHalfEven(breakdown.total_multiplier, MultDen, TenThousandths),
             deterministic_total |->
                 RoundHalfEven(breakdown.deterministic_total, MultDen, CentDen)]]

\* Lines 379-409: the three dictionary and clock normalisations and the three
\* encoder lookups, each of which may raise.
Normalized(encoders, a) ==
    LET truck_cat == NormalizeTruck(a.truck_category)
        traffic_lev == NormalizeTraffic(a.traffic_level)
        t == NormalizeTime(a.time_of_day)
        truck_encoded == Transform(encoders.truck_category, truck_cat)
        traffic_encoded == Transform(encoders.traffic_level, traffic_lev)
        time_encoded == Transform(encoders.time_of_day, t.time_period)
    IN  [raised |-> t.raised \/ truck_encoded.raised \/ traffic_encoded.raised
                    \/ time_encoded.raised,
         truck_cat |-> truck_cat,
         traffic_lev |-> traffic_lev,
         time_period |-> t.time_period,
         truck_encoded |-> truck_encoded.code,
         traffic_encoded |-> traffic_encoded.code,
         time_encoded |-> time_encoded.code]

\* estimate_price_details after the `_model is None` test: the dict it returns, or the
\* exception it raises.
EstimateOutcome(model, encoders, a) ==
    LET n == Normalized(encoders, a)
    IN  IF n.raised THEN Raised("ValueError")
        ELSE PriceDetails(model, a.distance_km, n.truck_cat, n.traffic_lev,
                          n.time_period, n.truck_encoded, n.traffic_encoded,
                          n.time_encoded, a.is_peak_hour)

\* predict_price after the `_model is None` test: its own normalisation and encoding,
\* then int(round(details["final_price"])).
PredictOutcome(model, encoders, a) ==
    LET n == Normalized(encoders, a)
        details == EstimateOutcome(model, encoders, a)
    IN  IF n.raised THEN Raised("ValueError")
        ELSE IF details.kind = "raised" THEN details
        ELSE [kind |-> "int", value |-> RoundHalfEven(details.final_price, CentDen, 1)]

-----------------------------------------------------------------------------
(* The arguments callers pass *)

Distances ==
    {d \in -1..MaxDistance : d <= 3 \/ d \in 7..8 \/ d % 10 = 0 \/ d = MaxDistance}

\* "van" and "gridlock" stand for any string the maps do not know.
VehicleInputs == {"small_vehicle", "medium_vehicle", "large_vehicle", "van"}

TrafficInputs == {"light", "medium", "heavy", "very_heavy", "gridlock"}

Noon == <<"N", "o", "o", "n">>
Clock0500 == <<"0", "5", ":", "0", "0">>
Clock1400 == <<"1", "4", ":", "0", "0">>
Clock2000 == <<"2", "0", ":", "0", "0">>
ClockMalformed == <<"a", "b", ":", "c", "d">>

TimeInputs ==
    {Morning, Afternoon, Evening, Night, Noon,
     Clock0500, Clock1400, Clock2000, ClockMalformed}

PeakInputs == {0, 1}

Args ==
    [distance_km : Distances, truck_category : VehicleInputs,
     traffic_level : TrafficInputs, time_of_day : TimeInputs, is_peak_hour : PeakInputs]

\* The call whose answers the history variable `first` remembers.
ProbeArgs ==
    [distance_km |-> 10, truck_category |-> "small_vehicle",
     traffic_level |-> "very_heavy", time_of_day |-> Morning, is_peak_hour |-> 1]

-----------------------------------------------------------------------------
(* Request threads and the objects training creates *)

\* app.run serves each request in a thread of its own; two of them.
Threads == {1, 2}

\* categorical_cols, in the order the loop walks them.
categorical_cols == <<"truck_category", "traffic_level", "time_of_day">>

\* A thread outside any call, before its first one.
IdleThread ==
    [pc |-> "idle", api |-> "", fn |-> "", col |-> 0, fitting |-> None,
     captured |-> None, ret |-> None, failed |-> FALSE, fits |-> 0]

\* A regressor is named by the thread that made it (a thread makes at most
\* one: once line 285 has run, _model is never None again).  A dict is named
\* by a number; a dict can be reached through the global or through the
\* tuple a thread is returning, so one more name than there are threads
\* always leaves a name no live dict has.
DictIds == 1..(Cardinality(Threads) + 1)

\* RandomForestRegressor(...) before fit.
Unfitted == [fitted |-> FALSE]

\* No object made yet.
NoObjects ==
    [regressors |-> [t \in Threads |-> Unfitted], dicts |-> [id \in DictIds |-> {}]]

-----------------------------------------------------------------------------
(* The state machine: one process calling the estimator again and again *)

Init ==
    /\ _model = None
    /\ _label_encoders = None
    /\ _features = None
    /\ call = None
    /\ ret = None
    /\ first = [estimate_price_details |-> None, predict_price |-> None]
    /\ threads = [t \in Threads |-> IdleThread]
    /\ objects = NoObjects
    /\ users = <<>>
    /\ bookings = <<>>
    /\ ratings = <<>>

\* _train_pricing_model: fits a model on a fresh random corpus and stores it,
\* the encoders and the feature list in the globals.
_train_pricing_model ==
    /\ _model' \in TrainedModels
    /\ _label_encoders' = FittedEncoders
    /\ _features' = FeatureList

\* Lines 311-315 and 370-373: train on the first call, reuse afterwards.
EnsureModel ==
    IF NeedsTraining(_model)
    THEN _train_pricing_model
    ELSE UNCHANGED <<_model, _label_encoders, _features>>

\* No call is in progress.
Idle == call = None

estimate_price_details(a) ==
    /\ Idle
    /\ EnsureModel
    /\ call' = [api |-> "estimate_price_details", args |-> a]
    /\ ret' = EstimateOutcome(_model', _label_encoders', a)

predict_price(a) ==
    /\ Idle
    /\ EnsureModel
    /\ call' = [api |-> "predict_price", args |-> a]
    /\ ret' = PredictOutcome(_model', _label_encoders', a)

\* The caller takes the answer (or the exception) and goes on.
CallerContinues ==
    /\ call # None
    /\ call' = None
    /\ ret' = None
    /\ UNCHANGED <<_model, _label_encoders, _features>>

Next ==
    \/ Idle /\ \E a \in Args : estimate_price_details(a) /\ UNCHANGED <<first, threads, objects, users, bookings, ratings>>
    \/ Idle /\ \E a \in Args : predict_price(a) /\ UNCHANGED <<first, threads, objects, users, bookings, ratings>>
    \/ CallerContinues /\ UNCHANGED <<first, threads, objects, users, bookings, ratings>>

Spec == Init /\ [][Next]_vars

-----------------------------------------------------------------------------
(* The same process, with the answers to ProbeArgs remembered *)

\* The final price of an answer, in cents.
PriceOf(r) == IF r.kind = "details" THEN r.final_price ELSE r.value * CentDen

\* The calls made while ProbeArgs is being watched: ProbeArgs itself and
\* calls that differ from it in each argument.
RepeatArgs ==
    {a \in Args : /\ a.distance_km \in {ProbeArgs.distance_km, 7}
                  /\ a.truck_category \in {ProbeArgs.truck_category, "van"}
                  /\ a.traffic_level \in {ProbeArgs.traffic_level, "light"}
                  /\ a.time_of_day \in {ProbeArgs.time_of_day, ClockMalformed}}

\* History of the answers `api` gave for ProbeArgs: the first price, whether
\* a different call was answered since, and whether ProbeArgs was asked again
\* after that.
Remember(api, a, outcome) ==
    first' =
        IF a = ProbeArgs /\ outcome.kind # "raised" /\ first[api] = None
        THEN [first EXCEPT ![api] = [price |-> PriceOf(outcome), others |-> FALSE,
                                      again |-> FALSE]]
        ELSE IF a = ProbeArgs /\ first[api] # None
        THEN [first EXCEPT ![api].again = first[api].others]
        ELSE IF first[api] # None
        THEN [first EXCEPT ![api].others = TRUE]
        ELSE first

NextRepeat ==
    \/ Idle /\ \E a \in RepeatArgs :
           /\ estimate_price_details(a) /\ Remember("estimate_price_details", a, ret')
           /\ UNCHANGED <<threads, objects, users, bookings, ratings>>
    \/ Idle /\ \E a \in RepeatArgs :
           /\ predict_price(a) /\ Remember("predict_price", a, ret')
           /\ UNCHANGED <<threads, objects, users, bookings, ratings>>
    \/ CallerContinues /\ UNCHANGED <<first, threads, objects, users, bookings, ratings>>

SpecRepeat == Init /\ [][NextRepeat]_vars

-----------------------------------------------------------------------------
(* Callers that pass any Python object as distance_km *)

\* A number, a string and None as Python objects.
Number(n) == [number |-> n]
Text(s) == [text |-> s]

\* float(x): the number itself; for a string its numeric value (strings of
\* whole numbers here) or ValueError; TypeError for None.
float(x) ==
    IF "number" \in DOMAIN x
    THEN [raised |-> FALSE, exc |-> "", value |-> x.number]
    ELSE IF "text" \in DOMAIN x
    THEN [raised |-> PyInt(x.text).raised, exc |-> "ValueError", value |-> PyInt(x.text).value]
    ELSE [raised |-> TRUE, exc |-> "TypeError", value |-> 0]

DistanceObjects ==
    {Number(-1), Number(0), Number(5), Text(<<"1", "2">>), Text(<<"a", "b", "c">>),
     Text(<<>>), None}

ObjectArgs ==
    [distance_km : DistanceObjects, truck_category : {"small_vehicle", "large_vehicle"},
     traffic_level : {"light", "heavy"}, time_of_day : {Morning, Clock2000, ClockMalformed},
     is_peak_hour : PeakInputs]

\* The answer to a call whose distance_km is an object: the normalisations
\* and encoder lookups come first (lines 379-409), then float(distance_km)
\* at line 90, which either raises or hands on the number.
ObjectOutcome(api, model, encoders, a) ==
    LET f == float(a.distance_km)
        numeric == [a EXCEPT !.distance_km = f.value]
    IN  IF Normalized(encoders, a).raised THEN Raised("ValueError")
        ELSE IF f.raised THEN Raised(f.exc)
        ELSE IF api = "estimate_price_details" THEN EstimateOutcome(model, encoders, numeric)
        ELSE PredictOutcome(model, encoders, numeric)

EstimateWithObject(a) ==
    /\ Idle
    /\ EnsureModel
    /\ call' = [api |-> "estimate_price_details", args |-> a]
    /\ ret' = ObjectOutcome("estimate_price_details", _model', _label_encoders', a)

PredictWithObject(a) ==
    /\ Idle
    /\ EnsureModel
    /\ call' = [api |-> "predict_price", args |-> a]
    /\ ret' = ObjectOutcome("predict_price", _model', _label_encoders', a)

NextObject ==
    \/ Idle /\ \E a \in ObjectArgs : EstimateWithObject(a) /\ UNCHANGED <<first, threads, objects, users, bookings, ratings>>
    \/ Idle /\ \E a \in ObjectArgs : PredictWithObject(a) /\ UNCHANGED <<first, threads, objects, users, bookings, ratings>>
    \/ CallerContinues /\ UNCHANGED <<first, threads, objects, users, bookings, ratings>>

SpecObject == Init /\ [][NextObject]_vars

-----------------------------------------------------------------------------
(* The state machine of concurrent requests.  Each step is one read or    *)
(* write of a module global (or one library call on the object a global   *)
(* names); between two steps of a thread any other thread may run.  Here  *)
(* _model and _label_encoders hold references to objects.                 *)

\* The forests a fit may produce here.
ThreadModels == {m \in ConstantModels : m.lo # 51}

Ref(kind, id) == [kind |-> kind, id |-> id]

\* Some thread is inside fit() of the regressor r.
IsFitting(r) == \E t \in Threads : threads[t].fitting = r

\* The regressor object r is fitted and no fit of it is running.
IsFitted(r) == objects.regressors[r.id].fitted /\ ~IsFitting(r)

\* The dict named i can still be reached.
Live(i) ==
    \/ _label_encoders = Ref("dict", i)
    \/ \E t \in Threads : threads[t].captured # None /\ threads[t].captured[2] = Ref("dict", i)

\* The thread is inside _train_pricing_model.
InTraining(t) ==
    threads[t].pc \in {"generate", "features", "encoders", "encode", "regressor", "fit",
                       "fitting", "return"}

\* The thread leaves its call with an answer or an exception.
Finish(t, outcome) ==
    [threads[t] EXCEPT !.pc = "idle", !.ret = outcome, !.col = 0, !.fitting = None,
                       !.captured = None]

\* No try/except surrounds the training call (lines 314-315 and 372-373):
\* what training raises is what the caller of the entry point gets.  Recovered
\* is the handler that is not there, answering with a price of 0.
Recovered(exc) == [kind |-> "int", value |-> 0]

Unhandled(exc) == Raised(exc)

\* A request thread enters predict_price or estimate_price_details.
Call(t, api) ==
    /\ threads[t].pc = "idle"
    /\ threads' = [threads EXCEPT ![t] = [@ EXCEPT !.pc = "test", !.api = api, !.fn = api,
                                                    !.ret = None, !.failed = FALSE]]
    /\ UNCHANGED <<_model, _label_encoders, _features, objects>>

\* Lines 314 and 372: if _model is None.
TestModel(t) ==
    /\ threads[t].pc = "test"
    /\ threads' = [threads EXCEPT ![t] =
                      IF NeedsTraining(_model) THEN [@ EXCEPT !.pc = "generate"]
                      ELSE [@ EXCEPT !.pc = "lookup", !.col = 1]]
    /\ UNCHANGED <<_model, _label_encoders, _features, objects>>

\* Line 265: df = _generate_kathmandu_data(500).
Generate(t) ==
    /\ threads[t].pc = "generate"
    /\ threads' = [threads EXCEPT ![t].pc = "features"]
    /\ UNCHANGED <<_model, _label_encoders, _features, objects>>

\* Line 268: _features = [...].
SetFeatures(t) ==
    /\ threads[t].pc = "features"
    /\ _features' = FeatureList
    /\ threads' = [threads EXCEPT ![t].pc = "encoders"]
    /\ UNCHANGED <<_model, _label_encoders, objects>>

\* Line 273: _label_encoders = {}.
NewEncoders(t) ==
    /\ threads[t].pc = "encoders"
    /\ LET id == CHOOSE i \in DictIds : ~Live(i) /\ \A j \in DictIds : j < i => Live(j)
       IN  /\ _label_encoders' = Ref("dict", id)
           /\ objects' = [objects EXCEPT !.dicts[id] = {}]
    /\ threads' = [threads EXCEPT ![t] = [@ EXCEPT !.pc = "encode", !.col = 1]]
    /\ UNCHANGED <<_model, _features>>

\* Lines 276-279, one turn of the loop: fit a LabelEncoder and store it in
\* the dict the global names at that moment.
Encode(t) ==
    /\ threads[t].pc = "encode"
    /\ objects' = [objects EXCEPT !.dicts[_label_encoders.id] =
                                      @ \cup {categorical_cols[threads[t].col]}]
    /\ threads' = [threads EXCEPT ![t] =
                      IF threads[t].col < Len(categorical_cols)
                      THEN [@ EXCEPT !.col = @ + 1]
                      ELSE [@ EXCEPT !.pc = "regressor", !.col = 0]]
    /\ UNCHANGED <<_model, _label_encoders, _features>>

\* Lines 282-292: _model = RandomForestRegressor(...), not fitted yet.
NewRegressor(t) ==
    /\ threads[t].pc = "regressor"
    /\ _model' = Ref("regressor", t)
    /\ objects' = [objects EXCEPT !.regressors[t] = Unfitted]
    /\ threads' = [threads EXCEPT ![t].pc = "fit"]
    /\ UNCHANGED <<_label_encoders, _features>>

\* Line 293: _model.fit(...) is entered on the regressor the global names.
StartFit(t) ==
    /\ threads[t].pc = "fit"
    /\ threads' = [threads EXCEPT ![t] = [@ EXCEPT !.pc = "fitting", !.fitting = _model]]
    /\ UNCHANGED <<_model, _label_encoders, _features, objects>>

\* Line 293: fit returns, the regressor holds a forest.
FinishFit(t) ==
    /\ threads[t].pc = "fitting"
    /\ \E m \in ThreadModels :
           objects' = [objects EXCEPT !.regressors[threads[t].fitting.id] =
                                          [fitted |-> TRUE, forest |-> m]]
    /\ threads' = [threads EXCEPT ![t] = [@ EXCEPT !.pc = "return", !.fitting = None,
                                                    !.fits = @ + 1]]
    /\ UNCHANGED <<_model, _label_encoders, _features>>

\* Line 295: return _model, _label_encoders, _features reads the globals.
Return(t) ==
    /\ threads[t].pc = "return"
    /\ threads' = [threads EXCEPT ![t] =
                      [@ EXCEPT !.pc = "assign",
                                !.captured = <<_model, _label_encoders, _features>>]]
    /\ UNCHANGED <<_model, _label_encoders, _features, objects>>

\* Lines 315 and 373: _model, _label_encoders, _features = (the tuple).
Assign(t) ==
    /\ threads[t].pc = "assign"
    /\ _model' = threads[t].captured[1]
    /\ _label_encoders' = threads[t].captured[2]
    /\ _features' = threads[t].captured[3]
    /\ threads' = [threads EXCEPT ![t] = [@ EXCEPT !.pc = "lookup", !.col = 1,
                                                    !.captured = None]]
    /\ UNCHANGED objects

\* Lines 354-356 and 407-409, one line each: _label_encoders[col], KeyError
\* when the dict has no such key.  After its third lookup predict_price
\* calls estimate_price_details (line 358), which starts at its own test.
Lookup(t) ==
    /\ threads[t].pc = "lookup"
    /\ threads' = [threads EXCEPT ![t] =
                      IF categorical_cols[threads[t].col]
                             \notin objects.dicts[_label_encoders.id]
                      THEN Finish(t, Raised("KeyError"))
                      ELSE IF threads[t].col < Len(categorical_cols)
                      THEN [@ EXCEPT !.col = @ + 1]
                      ELSE IF threads[t].fn = "predict_price"
                      THEN [@ EXCEPT !.pc = "test", !.col = 0,
                                     !.fn = "estimate_price_details"]
                      ELSE [@ EXCEPT !.pc = "predict", !.col = 0]]
    /\ UNCHANGED <<_model, _label_encoders, _features, objects>>

\* What a prediction racing with a running fit of the same regressor gives
\* is not defined: it raises, or it is computed from an unfinished forest.
RacingOutcomes == {Raised("NotFittedError"), [kind |-> "undefined"]}

\* Lines 412-468 (and 365 for predict_price): _model.predict and the price.
Predict(t) ==
    /\ threads[t].pc = "predict"
    /\ \E racing \in RacingOutcomes :
           threads' = [threads EXCEPT ![t] =
               Finish(t, IF IsFitting(_model) THEN racing
                         ELSE IF ~objects.regressors[_model.id].fitted
                         THEN Raised("NotFittedError")
                         ELSE IF threads[t].api = "predict_price"
                         THEN PredictOutcome(objects.regressors[_model.id].forest,
                                             FittedEncoders, ProbeArgs)
                         ELSE EstimateOutcome(objects.regressors[_model.id].forest,
                                              FittedEncoders, ProbeArgs))]
    /\ UNCHANGED <<_model, _label_encoders, _features, objects>>

ThreadStep(t) ==
    \/ Call(t, "estimate_price_details")
    \/ Call(t, "predict_price")
    \/ TestModel(t)
    \/ Generate(t)
    \/ SetFeatures(t)
    \/ NewEncoders(t)
    \/ Encode(t)
    \/ NewRegressor(t)
    \/ StartFit(t)
    \/ FinishFit(t)
    \/ Return(t)
    \/ Assign(t)
    \/ Lookup(t)
    \/ Predict(t)

NextThreads == \E t \in Threads : ThreadStep(t) /\ UNCHANGED <<call, ret, first, users, bookings, ratings>>

SpecThreads == Init /\ [][NextThreads]_vars

\* The corpus generator, a LabelEncoder or fit raises (out of memory, say):
\* the exception leaves _train_pricing_model and the entry point.
TrainingRaises(t) ==
    /\ threads[t].pc \in {"generate", "encode", "fitting"}
    /\ threads' = [threads EXCEPT ![t] =
                      [Finish(t, Unhandled("MemoryError")) EXCEPT !.failed = TRUE]]
    /\ UNCHANGED <<_model, _label_encoders, _features, objects>>

NextFailing ==
    \/ \E t \in Threads : ThreadStep(t) /\ UNCHANGED <<call, ret, first, users, bookings, ratings>>
    \/ \E t \in Threads : TrainingRaises(t) /\ UNCHANGED <<call, ret, first, users, bookings, ratings>>

SpecFailing == Init /\ [][NextFailing]_vars

-----------------------------------------------------------------------------
(* Clock strings in the booking workflow and the admin dashboard *)

\* s.split(':')[1:] joined again: the text after the first ':'.
SplitTail(s) ==
    LET k == CHOOSE i \in 1..Len(s) : s[i] = ":" /\ \A j \in 1..(i - 1) : s[j] # ":"
    IN  SubSeq(s, k + 1, Len(s))

\* hours, minutes = [int(x) for x in time_str.split(":")]: ValueError when
\* a part is no integer or when there are not exactly two parts.
ParseHoursMinutes(time_str) ==
    IF ~HasColon(time_str) \/ HasColon(SplitTail(time_str))
    THEN [raised |-> TRUE, hours |-> 0, minutes |-> 0]
    ELSE [raised |-> PyInt(SplitHead(time_str)).raised \/ PyInt(SplitTail(time_str)).raised,
          hours |-> PyInt(SplitHead(time_str)).value,
          minutes |-> PyInt(SplitTail(time_str)).value]

\* booking.py, get_time_period (the same text in book and in price_estimate).
\* The empty string stands for a missing form field too.
get_time_period(time_str) ==
    LET parsed == ParseHoursMinutes(time_str)
        hours == IF Len(time_str) = 0 \/ parsed.raised THEN 14 ELSE parsed.hours
    IN  IF 5 <= hours /\ hours < 12 THEN "Morning"
        ELSE IF 12 <= hours /\ hours < 17 THEN "Afternoon"
        ELSE IF 17 <= hours /\ hours < 21 THEN "Evening"
        ELSE "Night"

\* admin.py, time_band of the dashboard.
time_band(time_str) ==
    LET parsed == ParseHoursMinutes(time_str)
        total_minutes == parsed.hours * 60 + parsed.minutes
    IN  IF Len(time_str) = 0 \/ parsed.raised THEN "Unknown"
        ELSE IF 5 * 60 <= total_minutes /\ total_minutes < 12 * 60 THEN "Morning"
        ELSE IF 12 * 60 <= total_minutes /\ total_minutes < 17 * 60 THEN "Afternoon"
        ELSE IF 17 * 60 <= total_minutes /\ total_minutes < 21 * 60 THEN "Evening"
        ELSE "Night"

ClockDigits == <<"0", "1", "2", "3", "4", "5", "6", "7", "8", "9">>

TwoDigits(n) == <<ClockDigits[(n \div 10) + 1], ClockDigits[(n % 10) + 1]>>

\* The text HH:MM of a time of the day.
ClockString(h, m) == TwoDigits(h) \o <<":">> \o TwoDigits(m)

ClockHours == 0..23

ClockMinutes == {0, 30, 59}

\* The strings the three functions are given: every hour of the day at
\* three minutes, plus a missing field, text that is no clock, an hour
\* alone and a time with seconds.
TimeStrings ==
    {ClockString(h, m) : h \in ClockHours, m \in ClockMinutes}
        \cup {<<>>, ClockMalformed, <<"1", "4">>, ClockString(20, 30) \o <<":", "0", "0">>}

\* A period name as an answer.
Period(p) == [kind |-> "period", value |-> p]

\* The clock branch of estimate_price_details and predict_price on its own.
EstimatorPeriod(s) ==
    /\ Idle
    /\ call' = [api |-> "estimate_price_details", args |-> [time_str |-> s]]
    /\ ret' = IF NormalizeTime(s).raised THEN Raised("ValueError")
              ELSE Period(NormalizeTime(s).time_period)

BookingPeriod(s) ==
    /\ Idle
    /\ call' = [api |-> "get_time_period", args |-> [time_str |-> s]]
    /\ ret' = Period(get_time_period(s))

AdminPeriod(s) ==
    /\ Idle
    /\ call' = [api |-> "time_band", args |-> [time_str |-> s]]
    /\ ret' = Period(time_band(s))

NextClock ==
    \/ \E s \in TimeStrings : EstimatorPeriod(s) /\ UNCHANGED <<_model, _label_encoders, _features, first, threads, objects, users, bookings, ratings>>
    \/ \E s \in TimeStrings : BookingPeriod(s) /\ UNCHANGED <<_model, _label_encoders, _features, first, threads, objects, users, bookings, ratings>>
    \/ \E s \in TimeStrings : AdminPeriod(s) /\ UNCHANGED <<_model, _label_encoders, _features, first, threads, objects, users, bookings, ratings>>
    \/ CallerContinues /\ UNCHANGED <<first, threads, objects, users, bookings, ratings>>

SpecClock == Init /\ [][NextClock]_vars

-----------------------------------------------------------------------------
(* The booking workflow: book() and price_estimate() of booking.py *)

\* map_vehicle_category: the form value to 'SMALL' / 'MEDIUM' / 'LARGE';
\* 'MEDIUM' for an unknown or empty value.
map_vehicle_category(vehicle_type) ==
    IF vehicle_type = "" THEN "MEDIUM"
    ELSE DictGet([small_vehicle |-> "SMALL", medium_vehicle |-> "MEDIUM",
                  large_vehicle |-> "LARGE"], vehicle_type, "MEDIUM")

\* map_traffic_level: the chosen level to 'Light' / 'Medium' / 'Heavy' /
\* 'Very Heavy'.
map_traffic_level(chosen_level) ==
    DictGet([light |-> "Light", medium |-> "Medium", heavy |-> "Heavy",
             very_heavy |-> "Very Heavy"], chosen_level, "Medium")

\* The helper with both periods ending before their last minute.
PeakEndExcluded(time_str) ==
    LET parsed == ParseHoursMinutes(time_str)
        total_minutes == IF Len(time_str) = 0 THEN 14 * 60
                         ELSE parsed.hours * 60 + parsed.minutes
    IN  IF Len(time_str) # 0 /\ parsed.raised THEN 0
        ELSE IF \/ (6 * 60 <= total_minutes /\ total_minutes < 9 * 60)
                \/ (17 * 60 <= total_minutes /\ total_minutes < 20 * 60)
        THEN 1
        ELSE 0

\* is_peak_hour of booking.py: 1 from 06:00 to 09:00 and from 17:00 to 20:00.
booking_is_peak_hour(time_str) ==
    LET parsed == ParseHoursMinutes(time_str)
        total_minutes == IF Len(time_str) = 0 THEN 14 * 60
                         ELSE parsed.hours * 60 + parsed.minutes
    IN  IF Len(time_str) # 0 /\ parsed.raised THEN 0
        ELSE IF \/ (6 * 60 <= total_minutes /\ total_minutes <= 9 * 60)
                \/ (17 * 60 <= total_minutes /\ total_minutes <= 20 * 60)
        THEN 1
        ELSE 0

\* suggest_traffic_level: the traffic level the hour suggests.
suggest_traffic_level(time_str) ==
    LET parsed == ParseHoursMinutes(time_str)
        total_minutes == parsed.hours * 60 + parsed.minutes
    IN  IF Len(time_str) = 0 \/ parsed.raised THEN "medium"
        ELSE IF \/ (8 * 60 <= total_minutes /\ total_minutes <= 10 * 60 + 30)
                \/ (16 * 60 + 30 <= total_minutes /\ total_minutes <= 19 * 60 + 30)
        THEN "heavy"
        ELSE IF 11 * 60 <= total_minutes /\ total_minutes <= 15 * 60 + 30 THEN "medium"
        ELSE "light"

level_order == [light |-> 0, medium |-> 1, heavy |-> 2]

\* Lines 243-250: the override when it is one of the three levels, else the
\* first of (origin_level, dest_level, time_level) with the highest rank.
ChosenLevel(traffic_level_override, origin_level, dest_level, time_level) ==
    IF traffic_level_override \in {"light", "medium", "heavy"} THEN traffic_level_override
    ELSE LET levels == <<origin_level, dest_level, time_level>>
             rank(lv) == DictGet(level_order, lv, 1)
             best == CHOOSE i \in 1..3 :
                         /\ \A j \in 1..3 : rank(levels[j]) <= rank(levels[i])
                         /\ \A j \in 1..(i - 1) : rank(levels[j]) < rank(levels[i])
         IN  levels[best]

\* The keyword arguments of the predict_price call at lines 270-276 and
\* 502-508.
PredictPriceArguments(distance, vehicle_type, chosen_level, time_of_day) ==
    [distance_km |-> distance,
     truck_category |-> map_vehicle_category(vehicle_type),
     traffic_level |-> map_traffic_level(chosen_level),
     time_of_day |-> PeriodLiterals[get_time_period(time_of_day)],
     is_peak_hour |-> booking_is_peak_hour(time_of_day)]

\* The route distances the map service gives (0: no route found).
RouteDistances == {0, 3, 10}

\* What a user submits: the form fields, with the two zone levels and the
\* route distance that the addresses and coordinates of the form lead to.
BookingForms ==
    [vehicle_type : {"small_vehicle", "medium_vehicle", "large_vehicle", "", "van"},
     traffic_level_override : {"", "light", "medium", "heavy"},
     origin_level : {"light", "medium"},
     dest_level : {"light", "heavy"},
     time_of_day : {<<>>, ClockString(8, 0), ClockString(14, 0), ClockString(20, 30),
                    ClockString(23, 0)},
     distance : RouteDistances]

\* The level the handler settles on for a form.
FormLevel(form) ==
    ChosenLevel(form.traffic_level_override, form.origin_level, form.dest_level,
                suggest_traffic_level(form.time_of_day))

\* What the handler answers: no price without a distance, else the price of
\* predict_price (or its exception) with the level it settled on.
PricedAnswer(kind, model, encoders, form) ==
    LET chosen_level == FormLevel(form)
        arguments == {PredictPriceArguments(form.distance, form.vehicle_type, chosen_level,
                                            form.time_of_day)}
        answers == {IF price.kind = "raised" THEN price
                    ELSE [kind |-> kind, price |-> price.value, traffic_level |-> chosen_level] :
                        price \in {PredictOutcome(model, encoders, a) : a \in arguments}}
    IN  IF form.distance = 0 THEN [kind |-> "no_distance"]
        ELSE CHOOSE answer \in answers : TRUE

\* POST /book: the Booking row it stores.
book(form) ==
    /\ Idle
    /\ IF form.distance = 0 THEN UNCHANGED <<_model, _label_encoders, _features>>
       ELSE EnsureModel
    /\ call' = [api |-> "book", args |-> form]
    /\ ret' = PricedAnswer("booking", _model', _label_encoders', form)

\* POST /api/price-estimate: the JSON it answers.
price_estimate(form) ==
    /\ Idle
    /\ IF form.distance = 0 THEN UNCHANGED <<_model, _label_encoders, _features>>
       ELSE EnsureModel
    /\ call' = [api |-> "price_estimate", args |-> form]
    /\ ret' = PricedAnswer("estimate", _model', _label_encoders', form)

NextBooking ==
    \/ Idle /\ \E form \in BookingForms : book(form) /\ UNCHANGED <<first, threads, objects, users, bookings, ratings>>
    \/ Idle /\ \E form \in BookingForms : price_estimate(form) /\ UNCHANGED <<first, threads, objects, users, bookings, ratings>>
    \/ CallerContinues /\ UNCHANGED <<first, threads, objects, users, bookings, ratings>>

SpecBooking == Init /\ [][NextBooking]_vars

-----------------------------------------------------------------------------
(* The peak-hour helpers of the booking workflow and the admin dashboard *)

\* is_peak_hour of admin.py (admin_dashboard): False for a missing string
\* and for one that does not parse, else the same two periods as a bool.
admin_is_peak_hour(time_str) ==
    LET parsed == ParseHoursMinutes(time_str)
        total_minutes == parsed.hours * 60 + parsed.minutes
    IN  IF Len(time_str) = 0 THEN FALSE
        ELSE IF parsed.raised THEN FALSE
        ELSE \/ (6 * 60 <= total_minutes /\ total_minutes <= 9 * 60)
             \/ (17 * 60 <= total_minutes /\ total_minutes <= 20 * 60)

\* The strings the helpers are given: every hour of the day at the first,
\* second, middle and last minute, plus a missing field, text that is no
\* clock, an hour alone and a time with seconds.
PeakTimeStrings ==
    {ClockString(h, m) : h \in ClockHours, m \in {0, 1, 30, 59}}
        \cup {<<>>, ClockMalformed, <<"0", "8">>, ClockString(8, 30) \o <<":", "0", "0">>}

\* is_peak_hour(time_of_day) in book and in price_estimate.
BookingPeak(s) ==
    /\ Idle
    /\ call' = [api |-> "booking.is_peak_hour", args |-> [time_str |-> s]]
    /\ ret' = [kind |-> "int", value |-> booking_is_peak_hour(s)]

\* is_peak_hour(b.booking_time) in admin_dashboard.
AdminPeak(s) ==
    /\ Idle
    /\ call' = [api |-> "admin.is_peak_hour", args |-> [time_str |-> s]]
    /\ ret' = [kind |-> "bool", value |-> admin_is_peak_hour(s)]

NextPeak ==
    \/ \E s \in PeakTimeStrings : BookingPeak(s) /\ UNCHANGED <<_model, _label_encoders, _features, first, threads, objects, users, bookings, ratings>>
    \/ \E s \in PeakTimeStrings : AdminPeak(s) /\ UNCHANGED <<_model, _label_encoders, _features, first, threads, objects, users, bookings, ratings>>
    \/ CallerContinues /\ UNCHANGED <<first, threads, objects, users, bookings, ratings>>

SpecPeak == Init /\ [][NextPeak]_vars

-----------------------------------------------------------------------------
(* Accounts: signup, the admin's role requests and driver_reapply *)

\* the most user rows created
MaxUsers == 3

\* SQL NULL in a string column
NULL == "NULL"

\* User(...): a new row; role defaults to 'user', driver_status to NULL and
\* driver_available to False.
User(role, driver_status) ==
    [role |-> role, driver_status |-> driver_status, driver_available |-> FALSE]

\* @admin_required: the requester is logged in and is an admin.
admin_required(current_user) ==
    current_user \in DOMAIN users /\ users[current_user].role = "admin"

\* signup with a fresh username and e-mail; driver is the form's checkbox.
signup(driver) ==
    /\ Len(users) < MaxUsers
    /\ users' = Append(users, User("user", IF driver THEN "pending" ELSE NULL))

\* admin_signup with the registration token.
admin_signup ==
    /\ Len(users) < MaxUsers
    /\ users' = Append(users, User("admin", NULL))

\* The forms of /admin/set-role: a field role_<id> for some of the users,
\* each with one of the roles of the dashboard's selector.
RoleForms == UNION {[ids -> {"user", "driver", "admin"}] : ids \in SUBSET DOMAIN users}

\* The row of a user after the loop body of admin_set_role.
RoleSet(user, new_role) ==
    IF new_role = user.role THEN user
    ELSE [user EXCEPT !.role = new_role,
                      !.driver_status = IF new_role = "driver" THEN "approved" ELSE @,
                      !.driver_available = (new_role = "driver")]

admin_set_role(current_user, form) ==
    /\ admin_required(current_user)
    /\ users' = [id \in DOMAIN users |->
                    IF id \in DOMAIN form THEN RoleSet(users[id], form[id]) ELSE users[id]]

\* The row after admin_driver_reject with role left as it was.
RejectedKeepingRole(user) ==
    [user EXCEPT !.driver_status = "rejected", !.driver_available = FALSE]

\* The row after admin_driver_reject.
Rejected(user) ==
    [user EXCEPT !.role = "user", !.driver_status = "rejected", !.driver_available = FALSE]

admin_driver_approve(current_user, user_id) ==
    /\ admin_required(current_user)
    /\ user_id \in DOMAIN users
    /\ users' = [users EXCEPT ![user_id] =
                    [@ EXCEPT !.role = "driver", !.driver_status = "approved",
                              !.driver_available = TRUE]]

admin_driver_reject(current_user, user_id) ==
    /\ admin_required(current_user)
    /\ user_id \in DOMAIN users
    /\ users' = [users EXCEPT ![user_id] = Rejected(@)]

driver_reapply(current_user) ==
    /\ current_user \in DOMAIN users
    /\ users[current_user].driver_status = "rejected"
    /\ users' = [users EXCEPT ![current_user] =
                    [@ EXCEPT !.role = "user", !.driver_status = "pending",
                              !.driver_available = FALSE]]

NextAccounts ==
    \/ \E driver \in BOOLEAN : signup(driver) /\ UNCHANGED <<_model, _label_encoders, _features, call, ret, first, threads, objects, bookings, ratings>>
    \/ admin_signup /\ UNCHANGED <<_model, _label_encoders, _features, call, ret, first, threads, objects, bookings, ratings>>
    \/ \E current_user \in DOMAIN users : \E form \in RoleForms : admin_set_role(current_user, form) /\ UNCHANGED <<_model, _label_encoders, _features, call, ret, first, threads, objects, bookings, ratings>>
    \/ \E current_user, user_id \in DOMAIN users : admin_driver_approve(current_user, user_id) /\ UNCHANGED <<_model, _label_encoders, _features, call, ret, first, threads, objects, bookings, ratings>>
    \/ \E current_user, user_id \in DOMAIN users : admin_driver_reject(current_user, user_id) /\ UNCHANGED <<_model, _label_encoders, _features, call, ret, first, threads, objects, bookings, ratings>>
    \/ \E current_user \in DOMAIN users : driver_reapply(current_user) /\ UNCHANGED <<_model, _label_encoders, _features, call, ret, first, threads, objects, bookings, ratings>>

SpecAccounts == Init /\ [][NextAccounts]_vars

-----------------------------------------------------------------------------
(* The booking lifecycle: book, cancel, accept, start, deliver and rate *)

\* the most booking rows created
MaxBookings == 1

\* The tables with a sender, two approved drivers and an admin (the accounts
\* after three signups, two approvals and an admin signup) and no booking.
InitDelivery ==
    /\ _model = None
    /\ _label_encoders = None
    /\ _features = None
    /\ call = None
    /\ ret = None
    /\ first = [estimate_price_details |-> None, predict_price |-> None]
    /\ threads = [t \in Threads |-> IdleThread]
    /\ objects = NoObjects
    /\ users = <<User("user", NULL),
                 [User("driver", "approved") EXCEPT !.driver_available = TRUE],
                 [User("driver", "approved") EXCEPT !.driver_available = TRUE],
                 User("admin", NULL)>>
    /\ bookings = <<>>
    /\ ratings = <<>>

\* Booking(...) in book(): driver_id, driver_rating and user_rating are
\* NULL (0 here: ids and ratings that are set are at least 1), status
\* defaults to 'pending'.
Booking(user_id, payment_method, payment_by) ==
    [user_id |-> user_id, driver_id |-> 0, status |-> "pending",
     payment_method |-> payment_method, payment_by |-> payment_by,
     payment_received |-> FALSE, driver_rating |-> 0, user_rating |-> 0]

\* Rating(...) in rate_driver and rate_user.
Rating(booking_id, rater_id, rated_id, rating) ==
    [booking_id |-> booking_id, rater_id |-> rater_id, rated_id |-> rated_id,
     rating |-> rating]

\* @login_required and @driver_or_admin_required
driver_or_admin_required(current_user) ==
    current_user \in DOMAIN users /\ users[current_user].role \in {"driver", "admin"}

\* The end of book(): the row is added with the form's payment_method and
\* payment_by.
CreateBooking(current_user, payment_method, payment_by) ==
    /\ current_user \in DOMAIN users
    /\ Len(bookings) < MaxBookings
    /\ bookings' = Append(bookings, Booking(current_user, payment_method, payment_by))
    /\ UNCHANGED ratings

cancel_booking(current_user, booking_id) ==
    /\ current_user \in DOMAIN users
    /\ booking_id \in DOMAIN bookings
    /\ bookings[booking_id].user_id = current_user
    /\ bookings[booking_id].status \notin {"cancelled", "finished"}
    /\ bookings' = [bookings EXCEPT ![booking_id].status = "cancelled"]
    /\ UNCHANGED ratings

driver_accept(current_user, booking_id) ==
    /\ driver_or_admin_required(current_user)
    /\ booking_id \in DOMAIN bookings
    /\ bookings[booking_id].status \in {"pending", "accepted", "arrived"}
    /\ bookings' = [bookings EXCEPT ![booking_id].driver_id = current_user,
                                    ![booking_id].status = "arrived"]
    /\ UNCHANGED ratings

\* booking.driver_id != current_user.id and current_user.role != "admin"
\* sends the requester away.
OwnJourney(current_user, booking_id) ==
    \/ bookings[booking_id].driver_id = current_user
    \/ users[current_user].role = "admin"

\* payment_received is the form's checkbox.
start_journey(current_user, booking_id, payment_received) ==
    /\ driver_or_admin_required(current_user)
    /\ booking_id \in DOMAIN bookings
    /\ OwnJourney(current_user, booking_id)
    /\ bookings[booking_id].status \in {"arrived", "accepted"}
    /\ IF /\ bookings[booking_id].payment_method \in {"on_delivery", "cash"}
          /\ bookings[booking_id].payment_by = "sender"
       THEN /\ payment_received
            /\ bookings' = [bookings EXCEPT ![booking_id].payment_received = TRUE,
                                            ![booking_id].status = "in_transit"]
       ELSE bookings' = [bookings EXCEPT ![booking_id].status = "in_transit"]
    /\ UNCHANGED ratings

\* mark_delivered of driver.py.
driver_mark_delivered(current_user, booking_id, payment_received) ==
    /\ driver_or_admin_required(current_user)
    /\ booking_id \in DOMAIN bookings
    /\ OwnJourney(current_user, booking_id)
    /\ IF /\ bookings[booking_id].payment_method \in {"on_delivery", "cash"}
          /\ bookings[booking_id].payment_by = "receiver"
       THEN /\ payment_received
            /\ bookings' = [bookings EXCEPT ![booking_id].payment_received = TRUE,
                                            ![booking_id].status = "delivered"]
       ELSE bookings' = [bookings EXCEPT ![booking_id].status = "delivered"]
    /\ UNCHANGED ratings

\* mark_delivered of booking.py.
booking_mark_delivered(current_user, booking_id) ==
    /\ current_user \in DOMAIN users
    /\ booking_id \in DOMAIN bookings
    /\ users[current_user].role = "admin"
    /\ bookings' = [bookings EXCEPT ![booking_id].status = "delivered"]
    /\ UNCHANGED ratings

\* not value or value < 1 or value > 5 gives the form back.
ValidRating(value) == value # 0 /\ value >= 1 /\ value <= 5

\* rate_driver letting a sender rate again.
RateDriverAgain(current_user, booking_id, rating_value, site_rating_value) ==
    /\ current_user \in DOMAIN users
    /\ booking_id \in DOMAIN bookings
    /\ bookings[booking_id].user_id = current_user
    /\ bookings[booking_id].status = "delivered"
    /\ ValidRating(rating_value)
    /\ ValidRating(site_rating_value)
    /\ bookings[booking_id].driver_id # 0
    /\ bookings' = [bookings EXCEPT ![booking_id].driver_rating = rating_value]
    /\ ratings' = Append(ratings, Rating(booking_id, current_user,
                                         bookings[booking_id].driver_id, rating_value))

\* rate_driver, POST; rating_value and site_rating_value are the form's
\* rating and site_rating: missing (0), in range or out of range. rated_id is NOT NULL: for a booking without a driver
\* the commit raises IntegrityError and nothing is stored.
rate_driver(current_user, booking_id, rating_value, site_rating_value) ==
    /\ current_user \in DOMAIN users
    /\ booking_id \in DOMAIN bookings
    /\ bookings[booking_id].user_id = current_user
    /\ bookings[booking_id].status = "delivered"
    /\ bookings[booking_id].driver_rating = 0
    /\ ValidRating(rating_value)
    /\ ValidRating(site_rating_value)
    /\ bookings[booking_id].driver_id # 0
    /\ bookings' = [bookings EXCEPT ![booking_id].driver_rating = rating_value]
    /\ ratings' = Append(ratings, Rating(booking_id, current_user,
                                         bookings[booking_id].driver_id, rating_value))

\* rate_user, POST.
rate_user(current_user, booking_id, rating_value, site_rating_value) ==
    /\ current_user \in DOMAIN users
    /\ booking_id \in DOMAIN bookings
    /\ OwnJourney(current_user, booking_id)
    /\ bookings[booking_id].status = "delivered"
    /\ bookings[booking_id].user_rating = 0
    /\ ValidRating(rating_value)
    /\ ValidRating(site_rating_value)
    /\ bookings' = [bookings EXCEPT ![booking_id].user_rating = rating_value]
    /\ ratings' = Append(ratings, Rating(booking_id, current_user,
                                         bookings[booking_id].user_id, rating_value))

NextDelivery ==
    \/ \E current_user \in {1}, payment_method \in {"cash", "online"}, payment_by \in {"sender", "receiver"} : CreateBooking(current_user, payment_method, payment_by) /\ UNCHANGED <<_model, _label_encoders, _features, call, ret, first, threads, objects, users>>
    \/ \E current_user \in DOMAIN users, booking_id \in DOMAIN bookings : cancel_booking(current_user, booking_id) /\ UNCHANGED <<_model, _label_encoders, _features, call, ret, first, threads, objects, users>>
    \/ \E current_user \in DOMAIN users, booking_id \in DOMAIN bookings : driver_accept(current_user, booking_id) /\ UNCHANGED <<_model, _label_encoders, _features, call, ret, first, threads, objects, users>>
    \/ \E current_user \in DOMAIN users, booking_id \in DOMAIN bookings, payment_received \in BOOLEAN : start_journey(current_user, booking_id, payment_received) /\ UNCHANGED <<_model, _label_encoders, _features, call, ret, first, threads, objects, users>>
    \/ \E current_user \in DOMAIN users, booking_id \in DOMAIN bookings, payment_received \in BOOLEAN : driver_mark_delivered(current_user, booking_id, payment_received) /\ UNCHANGED <<_model, _label_encoders, _features, call, ret, first, threads, objects, users>>
    \/ \E current_user \in DOMAIN users, booking_id \in DOMAIN bookings : booking_mark_delivered(current_user, booking_id) /\ UNCHANGED <<_model, _label_encoders, _features, call, ret, first, threads, objects, users>>
    \/ \E current_user \in DOMAIN users, booking_id \in DOMAIN bookings, rating_value, site_rating_value \in {0, 4, 6} : rate_driver(current_user, booking_id, rating_value, site_rating_value) /\ UNCHANGED <<_model, _label_encoders, _features, call, ret, first, threads, objects, users>>
    \/ \E current_user \in DOMAIN users, booking_id \in DOMAIN bookings, rating_value, site_rating_value \in {0, 4, 6} : rate_user(current_user, booking_id, rating_value, site_rating_value) /\ UNCHANGED <<_model, _label_encoders, _features, call, ret, first, threads, objects, users>>

SpecDelivery == InitDelivery /\ [][NextDelivery]_vars

-----------------------------------------------------------------------------
(* Vocabulary of the properties *)

\* The vehicle category a request string stands for (SMALL / MEDIUM / LARGE,
\* MEDIUM for any other string).
CategoryOf(vehicle) ==
    CASE vehicle = "small_vehicle" -> "SMALL"
      [] vehicle = "large_vehicle" -> "LARGE"
      [] OTHER -> "MEDIUM"

minimum_charge == [c \in TruckCats |-> KTM_RATES[c].min]
maximum_charge == [c \in TruckCats |-> KTM_RATES[c].max]

\* A call has been answered with a price.
Answered == call # None /\ ret.kind # "raised"

\* What the entry point `api` gives for the arguments a with the cached model.
OutcomeOf(api, a) ==
    IF api = "estimate_price_details"
    THEN EstimateOutcome(_model, _label_encoders, a)
    ELSE PredictOutcome(_model, _label_encoders, a)

-----------------------------------------------------------------------------
(* Properties *)

\* C1: every price returned, by estimate_price_details or by predict_price,
\* lies between the minimum and the maximum charge of the request's category.
C1_PriceWithinCharges ==
    Answered =>
        LET c == CategoryOf(call.args.truck_category)
        IN  /\ minimum_charge[c] * CentDen <= PriceOf(ret)
            /\ PriceOf(ret) <= maximum_charge[c] * CentDen

\* C1 witness: a SMALL trip whose hybrid price exceeds the maximum charge and
\* is returned as exactly the maximum charge.
C1_Witness ==
    /\ Answered
    /\ ret.kind = "details"
    /\ ret.truck_category = "SMALL"
    /\ ret.breakdown.deterministic_total * ret.context_factor
           > maximum_charge["SMALL"] * CentDen * TenThousandths
    /\ ret.final_price = maximum_charge["SMALL"] * CentDen

\* C2: with the other arguments and the cached model fixed, a longer distance
\* never gives a lower final price.
C2_DistanceMonotone ==
    Answered =>
        \A d \in Distances :
            d >= call.args.distance_km =>
                PriceOf(OutcomeOf(call.api, [call.args EXCEPT !.distance_km = d]))
                    >= PriceOf(ret)

\* C2 witness: a 7 km trip priced above its fairness floor with the context
\* factor at 1.08, and the 8 km trip costs strictly more.
C2_Witness ==
    /\ Answered
    /\ ret.kind = "details"
    /\ call.args.distance_km = 7
    /\ ret.context_factor = 10800
    /\ ret.final_price > ret.fair_floor
    /\ PriceOf(OutcomeOf(call.api, [call.args EXCEPT !.distance_km = 8])) > ret.final_price

\* The traffic strings the estimator knows, lightest first.
TrafficRank == [light |-> 1, medium |-> 2, heavy |-> 3, very_heavy |-> 4]

\* C3: with the other arguments fixed, a heavier traffic level never gives a
\* lower final price, except where a price is capped by the maximum charge.
C3_TrafficMonotone ==
    (Answered /\ call.args.traffic_level \in DOMAIN TrafficRank) =>
        \A t \in DOMAIN TrafficRank :
            TrafficRank[t] > TrafficRank[call.args.traffic_level] =>
                LET heavier == PriceOf(OutcomeOf(call.api, [call.args EXCEPT !.traffic_level = t]))
                    cap == maximum_charge[CategoryOf(call.args.truck_category)] * CentDen
                IN  \/ PriceOf(ret) <= heavier
                    \/ PriceOf(ret) = cap
                    \/ heavier = cap

\* C4: with the other arguments fixed, the peak-hour price is never below the
\* off-peak price.
C4_PeakSurcharge ==
    (Answered /\ call.args.is_peak_hour = 0) =>
        PriceOf(OutcomeOf(call.api, [call.args EXCEPT !.is_peak_hour = 1])) >= PriceOf(ret)

\* The scenario of the specification: 10 km, medium vehicle, light traffic,
\* 14:00, off-peak.
ScenarioArgs ==
    [distance_km |-> 10, truck_category |-> "medium_vehicle", traffic_level |-> "light",
     time_of_day |-> Clock1400, is_peak_hour |-> 0]

ScenarioAnswered == Answered /\ call.args = ScenarioArgs

\* C5 as first stated: in the scenario the deterministic total is 700 and
\* the final price is 700, whatever the context factor.
C5_ScenarioPrice700 ==
    ScenarioAnswered =>
        /\ ret.kind = "details" => ret.breakdown.deterministic_total = 700 * CentDen
        /\ PriceOf(ret) = 700 * CentDen

\* C5: in the scenario the deterministic total is 700 (670 raised to the
\* minimum charge) and the final price is 1180, the fairness floor
\* 700 + 8 x 60, whatever the context factor.
C5_ScenarioPrice1180 ==
    ScenarioAnswered =>
        /\ ret.kind = "details" =>
               /\ ret.breakdown.subtotal_before_multiplier = 670 * CentDen
               /\ ret.breakdown.deterministic_total = 700 * CentDen
        /\ PriceOf(ret) = 1180 * CentDen

\* C5 witness: the scenario answered with the context factor at 1.08.
C5_Witness ==
    /\ ScenarioAnswered
    /\ ret.kind = "details"
    /\ ret.context_factor = 10800
    /\ ret.time_period = "Afternoon"

\* fairness_floor(distance_km, category) of the specification, in rupees.
fairness_floor(distance_km, c) ==
    Min2(minimum_charge[c] + Max2(0, distance_km - 2) * per_km_floor[c], maximum_charge[c])

\* C6: the final price of every result is
\* min(max(deterministic_total x context_factor, fairness_floor, minimum_charge),
\* maximum_charge), rounded to the cent, and is never below the fair_floor of
\* the same result.
C6_FinalPriceFormula ==
    (Answered /\ ret.kind = "details") =>
        LET c == CategoryOf(call.args.truck_category)
            deterministic_total ==
                _deterministic_price(call.args.distance_km, c, ret.traffic_level,
                                     ret.time_period, call.args.is_peak_hour)
            context_factor == ret.context_factor \div (TenThousandths \div CtxDen)
            expected ==
                Min2(Max2(Max2(deterministic_total * context_factor,
                               fairness_floor(call.args.distance_km, c) * FineDen),
                          minimum_charge[c] * FineDen),
                     maximum_charge[c] * FineDen)
        IN  /\ ret.final_price = RoundHalfEven(expected, FineDen, CentDen)
            /\ ret.final_price >= ret.fair_floor
            /\ ret.fair_floor = fairness_floor(call.args.distance_km, c) * CentDen

\* C6 witness: a result whose price is its fairness floor, above the minimum
\* charge and below the maximum charge.
C6_Witness ==
    /\ Answered
    /\ ret.kind = "details"
    /\ ret.final_price = ret.fair_floor
    /\ ret.fair_floor > minimum_charge[ret.truck_category] * CentDen
    /\ ret.fair_floor < maximum_charge[ret.truck_category] * CentDen
    /\ ret.breakdown.deterministic_total < ret.fair_floor

\* C7: the context factor of every result lies in [0.98, 1.08].
C7_ContextFactorBand ==
    (Answered /\ ret.kind = "details") =>
        /\ 9800 <= ret.context_factor
        /\ ret.context_factor <= 10800

\* C7 witness: the model predicts 1.2 times the deterministic reference price
\* and the result reports 1.08.
C7_Witness ==
    /\ Answered
    /\ ret.kind = "details"
    /\ _model.lo = 60
    /\ _model.hi = 60
    /\ ret.context_factor = 10800

\* C8: once the model is cached, every answer to ProbeArgs carries the price
\* of the first answer the same entry point gave for ProbeArgs, whatever
\* calls were answered in between.
C8_RepeatedCallSameAnswer ==
    (Answered /\ call.args = ProbeArgs) =>
        /\ first[call.api] # None
        /\ PriceOf(ret) = first[call.api].price

\* C8 witness: ProbeArgs answered again after a different call was answered.
C8_Witness ==
    /\ Answered
    /\ call.args = ProbeArgs
    /\ first[call.api] # None
    /\ first[call.api].again

\* C9: an unrecognized vehicle category gives the result of medium_vehicle,
\* an unrecognized traffic level the result of medium, and an unrecognized
\* time of day that is no clock string the result of Afternoon.
C9_DefaultFallback ==
    call # None =>
        /\ call.args.truck_category \notin {"small_vehicle", "medium_vehicle", "large_vehicle"}
              => ret = OutcomeOf(call.api, [call.args EXCEPT !.truck_category = "medium_vehicle"])
        /\ call.args.traffic_level \notin DOMAIN TrafficRank
              => ret = OutcomeOf(call.api, [call.args EXCEPT !.traffic_level = "medium"])
        /\ (~HasColon(call.args.time_of_day)
                /\ call.args.time_of_day \notin {Morning, Afternoon, Evening, Night})
              => ret = OutcomeOf(call.api, [call.args EXCEPT !.time_of_day = Afternoon])

\* C9 witness: a call with all three arguments unrecognized, answered as a
\* MEDIUM vehicle in Medium traffic in the Afternoon.
C9_Witness ==
    /\ Answered
    /\ ret.kind = "details"
    /\ call.args.truck_category = "van"
    /\ call.args.traffic_level = "gridlock"
    /\ call.args.time_of_day = Noon
    /\ ret.truck_category = "MEDIUM"
    /\ ret.traffic_level = "Medium"
    /\ ret.time_period = "Afternoon"

\* C10: no call raises, whatever the vehicle category, traffic level and
\* time of day strings are.
C10_NeverRaises == call # None => ret.kind # "raised"

\* C11: a negative distance is treated as distance 0: the whole answer
\* (breakdown, fair_floor, final_price, or the rounded price of predict_price)
\* is the answer the same call gets with distance_km = 0.
C11_NegativeDistanceAsZero ==
    (call # None /\ call.args.distance_km < 0) =>
        ret = OutcomeOf(call.api, [call.args EXCEPT !.distance_km = 0])

\* C11 witness: estimate_price_details answered a call for -1 km, with no
\* distance fare and the floor of a trip inside the base distance.
C11_Witness ==
    /\ Answered
    /\ ret.kind = "details"
    /\ call.args.distance_km = -1
    /\ ret.breakdown.distance_fare = 0
    /\ ret.fair_floor = minimum_charge[ret.truck_category] * CentDen

\* C12: a distance_km that is no number (a string that is not a number, or
\* None) is coerced to 0: the call is answered as the same call with
\* distance_km = 0 is, and does not raise because of the distance.
C12_NonNumericAsZero ==
    (call # None /\ float(call.args.distance_km).raised) =>
        ret = OutcomeOf(call.api, [call.args EXCEPT !.distance_km = 0])

\* C13: initialization is mutually exclusive under any interleaving of
\* requests: no two threads are inside _train_pricing_model at once, and at
\* most one fit ever completes in the process.
C13_InitializationOnce ==
    /\ \A t, u \in Threads : (InTraining(t) /\ InTraining(u)) => t = u
    /\ Cardinality({t \in Threads : threads[t].fits > 0}) <= 1

\* C14: a request that is past the `_model is None` test never meets a
\* partially initialized model: each encoder it is about to read is in the
\* dict, and the regressor it is about to predict with is fitted.
C14_NoPartialModel ==
    \A t \in Threads :
        /\ threads[t].pc = "lookup" =>
               categorical_cols[threads[t].col] \in objects.dicts[_label_encoders.id]
        /\ threads[t].pc = "predict" => IsFitted(_model)

\* C15: when corpus generation, encoding or fit raises during
\* initialization, the call that was training ends with that exception and
\* with no price.
C15_TrainingFailurePropagates ==
    \A t \in Threads : threads[t].failed => threads[t].ret = Raised("MemoryError")

\* C15 witness: a predict_price call whose fit raised (the unfitted
\* regressor is already in _model) has ended with the exception.
C15_Witness ==
    \E t \in Threads :
        /\ threads[t].failed
        /\ threads[t].pc = "idle"
        /\ threads[t].api = "predict_price"
        /\ _model = Ref("regressor", t)
        /\ ~objects.regressors[t].fitted
        /\ threads[t].ret.kind = "raised"

\* The period the interface assigns to the hour of a clock time: 05:00-11:59
\* Morning, 12:00-16:59 Afternoon, 17:00-19:59 Evening, otherwise Night.
ClockPeriod(h) ==
    IF h \in 5..11 THEN "Morning"
    ELSE IF h \in 12..16 THEN "Afternoon"
    ELSE IF h \in 17..19 THEN "Evening"
    ELSE "Night"

\* C16: wherever the program takes a clock string HH:MM (the estimator,
\* booking.get_time_period, admin.time_band), it gives the period of
\* ClockPeriod.
C16_ClockPeriods ==
    call # None =>
        \A h \in ClockHours, m \in ClockMinutes :
            call.args.time_str = ClockString(h, m) => ret = Period(ClockPeriod(h))

\* C17 as stated: beyond the 2 km base the final price strictly increases
\* with distance: for 2 <= d1 < d2 and everything else equal, the price for
\* d1 is below the price for d2.
C17_PriceStrictlyIncreases ==
    (Answered /\ call.args.distance_km >= 2) =>
        \A d \in Distances :
            d > call.args.distance_km =>
                PriceOf(ret) < PriceOf(OutcomeOf(call.api, [call.args EXCEPT !.distance_km = d]))

\* C17, amended: beyond the 2 km base it is the fairness floor that strictly
\* increases with distance, until it reaches the maximum charge, and the
\* final price is never below the floor of its own distance.
C17_FloorStrictlyIncreases ==
    (Answered /\ ret.kind = "details" /\ call.args.distance_km >= 2) =>
        /\ ret.final_price >= ret.fair_floor
        /\ \A d \in Distances :
               d > call.args.distance_km =>
                   LET longer == OutcomeOf(call.api, [call.args EXCEPT !.distance_km = d])
                   IN  longer.fair_floor < maximum_charge[ret.truck_category] * CentDen
                           => ret.fair_floor < longer.fair_floor

\* C17 witness: a LARGE trip of 2 km priced 1296.00 (the minimum charge
\* times 1.08) over a floor of 1200.00; the 3 km trip has the higher floor
\* 1285.00 and the same price.
C17_Witness ==
    /\ Answered
    /\ ret.kind = "details"
    /\ ret.truck_category = "LARGE"
    /\ call.args.distance_km = 2
    /\ ret.fair_floor = 120000
    /\ ret.final_price = 129600
    /\ LET longer == OutcomeOf(call.api, [call.args EXCEPT !.distance_km = 3])
       IN  longer.fair_floor = 128500 /\ longer.final_price = 129600

\* The price the call in progress would get for another vehicle string.
PriceForVehicle(vehicle) ==
    PriceOf(OutcomeOf(call.api, [call.args EXCEPT !.truck_category = vehicle]))

\* C18: with distance, traffic level, time of day, peak flag and the cached
\* model fixed, small_vehicle never costs more than medium_vehicle, which
\* never costs more than large_vehicle, whatever context factor the model
\* gives each category.
C18_VehicleSizeMonotone ==
    Answered =>
        /\ PriceForVehicle("small_vehicle") <= PriceForVehicle("medium_vehicle")
        /\ PriceForVehicle("medium_vehicle") <= PriceForVehicle("large_vehicle")

\* C18 witness: the cached model gives SMALL the factor 1.08 and MEDIUM the
\* factor 0.98, the SMALL price stands above its floor, and predict_price
\* still answers less for small_vehicle than for medium_vehicle.
C18_Witness ==
    /\ Answered
    /\ call.api = "predict_price"
    /\ call.args.truck_category = "small_vehicle"
    /\ LET small == EstimateOutcome(_model, _label_encoders, call.args)
           medium == EstimateOutcome(_model, _label_encoders,
                                     [call.args EXCEPT !.truck_category = "medium_vehicle"])
       IN  /\ small.context_factor = 10800
           /\ medium.context_factor = 9800
           /\ small.final_price > small.fair_floor
    /\ ret.value < PriceForVehicle("medium_vehicle") \div CentDen

\* The estimator's price for the request of a form: the vehicle type and the
\* traffic level as the user's request has them, in the estimator's own
\* vocabulary ('small_vehicle', 'heavy', ...), at the period and peak flag
\* the handler derived from the clock time.
RequestedPrice(form) ==
    LET request == {[distance_km |-> form.distance,
                     truck_category |-> form.vehicle_type,
                     traffic_level |-> FormLevel(form),
                     time_of_day |-> PeriodLiterals[get_time_period(form.time_of_day)],
                     is_peak_hour |-> booking_is_peak_hour(form.time_of_day)]}
    IN  CHOOSE price \in {PredictOutcome(_model, _label_encoders, a).value : a \in request} : TRUE

\* C19: the price book() and price_estimate() obtain is the estimator's
\* price for the vehicle category and traffic level of the request, not
\* the price of the default category or level.
C19_BookingPricesRequest ==
    (call # None /\ ret.kind \in {"booking", "estimate"}) =>
        ret.price = RequestedPrice(call.args)

\* C20: the breakdown that estimate_price_details reports adds up:
\* subtotal_before_multiplier is the sum of the four components,
\* total_multiplier is traffic_factor x peak_factor x time_factor with a
\* peak factor of 1.15 (else 1.0) and a Night factor of 0.95 (else 1.0), and
\* deterministic_total is subtotal x multiplier clipped into
\* [minimum_charge, maximum_charge] of the category.
C20_BreakdownIdentities ==
    (Answered /\ ret.kind = "details") =>
        LET b == ret.breakdown
            c == ret.truck_category
            product == (b.traffic_factor \div 5) * (b.peak_factor \div 5) * (b.time_factor \div 5)
            raw == (b.subtotal_before_multiplier \div CentDen) * product
            clipped == Min2(Max2(raw, minimum_charge[c] * MultDen), maximum_charge[c] * MultDen)
        IN  /\ b.subtotal_before_multiplier
                   = b.distance_fare + b.fuel_maintenance + b.labor + b.service_fee
            /\ b.peak_factor = IF call.args.is_peak_hour # 0 THEN 115 ELSE 100
            /\ b.time_factor = IF ret.time_period = "Night" THEN 95 ELSE 100
            /\ b.total_multiplier = RoundHalfEven(product, MultDen, TenThousandths)
            /\ b.deterministic_total = RoundHalfEven(clipped, MultDen, CentDen)

\* C20 witness: a Night trip at peak in very heavy traffic, multiplier
\* 1.4 x 1.15 x 0.95 = 1.5295, whose deterministic total lies strictly
\* between the two charges, so that the clip changes nothing.
C20_Witness ==
    /\ Answered
    /\ ret.kind = "details"
    /\ ret.time_period = "Night"
    /\ ret.breakdown.traffic_factor = 140
    /\ ret.breakdown.peak_factor = 115
    /\ ret.breakdown.total_multiplier = 15295
    /\ ret.breakdown.deterministic_total > minimum_charge[ret.truck_category] * CentDen
    /\ ret.breakdown.deterministic_total < maximum_charge[ret.truck_category] * CentDen
    /\ ret.breakdown.deterministic_total * 100
           = (ret.breakdown.subtotal_before_multiplier \div CentDen) * 15295

\* C21: the context factor does not depend on the distance of the request:
\* with the cached model, the category, the traffic level, the time of day
\* and the peak flag fixed, estimate_price_details reports the same
\* context_factor for every distance_km: the factor of every request is the
\* factor of the same request at the reference distance.
C21_ContextFactorIgnoresDistance ==
    (Answered /\ ret.kind = "details") =>
        OutcomeOf(call.api, [call.args EXCEPT !.distance_km = reference_distance]).context_factor
            = ret.context_factor

\* C21 witness: the cached model splits on the distance at 7 km (factor 1.2
\* up to 7 km, 0.8 beyond); an 8 km request is answered with the factor of
\* the 5 km reference row, clipped to 1.08.
C21_Witness ==
    /\ Answered
    /\ ret.kind = "details"
    /\ _model.feature = 1
    /\ _model.lo = 60
    /\ _model.hi = 40
    /\ call.args.distance_km = 8
    /\ ret.context_factor = 10800

\* C22: in a sequence of calls made one after the other the learned model is
\* uninitialized, then trained by the first call, then resident: the first
\* call leaves a trained model with its encoders and feature list in the
\* globals, and no later step replaces any of the three.
C22_ModelLifecycle ==
    [][/\ (_model = None /\ call' # None) =>
              (_model' \in TrainedModels /\ _label_encoders' = FittedEncoders
                  /\ _features' = FeatureList)
       /\ _model # None => UNCHANGED <<_model, _label_encoders, _features>>]_vars

\* C22 witness: predict_price answers the watched call a second time, after
\* other calls, with the model the first call trained still in place.
C22_Witness ==
    /\ call # None
    /\ call.api = "predict_price"
    /\ first.predict_price # None
    /\ first.predict_price.again
    /\ _model \in TrainedModels
    /\ ret.kind = "int"

\* C27: a failed initialization leaves the model cache uninitialized: when
\* training has raised in the only thread that has called so far, _model
\* is still None, so that the next call trains again.
C27_FailedTrainingLeavesNone ==
    \A t \in Threads :
        (threads[t].failed /\ \A u \in Threads \ {t} : threads[u] = IdleThread)
            => _model = None

\* The clock strings from 06:00 to 09:00 and from 17:00 to 20:00, both ends
\* included.
PeakClockStrings ==
    {ClockString(h, m) : h \in (6..8) \cup (17..19), m \in 0..59}
        \cup {ClockString(9, 0), ClockString(20, 0)}

\* C30: the peak-hour helpers of the booking workflow and of the admin
\* dashboard report peak exactly for the clock times from 06:00 to 09:00
\* and from 17:00 to 20:00, ends included, and not-peak for every other
\* time and for a missing or unparsable string.
C30_PeakHours ==
    /\ (Answered /\ call.api = "booking.is_peak_hour") =>
           ret.value = (IF call.args.time_str \in PeakClockStrings THEN 1 ELSE 0)
    /\ (Answered /\ call.api = "admin.is_peak_hour") =>
           ret.value = (call.args.time_str \in PeakClockStrings)

C30_Witness == Answered /\ call.api = "admin.is_peak_hour" /\ call.args.time_str = ClockString(20, 0) /\ ret.value = TRUE

\* C29: after any sequence of signup, admin_set_role, admin_driver_approve,
\* admin_driver_reject and driver_reapply from an empty user table, every
\* user whose role is driver has driver_status approved.
C29_DriversAreApproved ==
    \A id \in DOMAIN users :
        users[id].role = "driver" => users[id].driver_status = "approved"

C29_Witness == \E id \in DOMAIN users : users[id].role = "driver" /\ users[id].driver_status = "approved" /\ \E other \in DOMAIN users : users[other].role = "user" /\ users[other].driver_status = "rejected"

\* The statuses of the booking lifecycle.
LifecycleStatuses == {"pending", "accepted", "in_transit", "delivered", "cancelled"}

\* C23: in every reachable state every booking's status is one of pending,
\* accepted, in_transit, delivered and cancelled.
C23_StatusInLifecycle ==
    \A booking_id \in DOMAIN bookings : bookings[booking_id].status \in LifecycleStatuses

\* C24: delivered and cancelled are terminal: no request changes the
\* status of a booking that is delivered or cancelled.
C24_TerminalStatuses ==
    [][\A booking_id \in DOMAIN bookings :
           bookings[booking_id].status \in {"delivered", "cancelled"}
               => bookings'[booking_id].status = bookings[booking_id].status]_vars

\* C25: once a driver has accepted a booking no request of another driver
\* changes its driver_id (driver_accept stores the requester's id).
C25_AcceptedBookingKeepsDriver ==
    [][\A booking_id \in DOMAIN bookings :
           (/\ bookings[booking_id].driver_id # 0
            /\ bookings'[booking_id].driver_id # bookings[booking_id].driver_id)
               => users[bookings'[booking_id].driver_id].role # "driver"]_vars

\* C26: a delivered booking paid in cash or on delivery has
\* payment_received = True.
C26_CashPaidWhenDelivered ==
    \A booking_id \in DOMAIN bookings :
        (/\ bookings[booking_id].status = "delivered"
         /\ bookings[booking_id].payment_method \in {"cash", "on_delivery"})
            => bookings[booking_id].payment_received

\* The Rating rows of a booking.
RatingsOf(booking_id) == SelectSeq(ratings, LAMBDA r : r.booking_id = booking_id)

\* C28: a Rating row is added only while the booking is delivered, one row
\* at a time, and only by the first driver rating (driver_rating goes from
\* NULL to a value) or the first user rating (user_rating does) of the
\* booking; a rating that is set never changes, and no row is removed.
C28_RatingsOncePerDelivered ==
    [][/\ Len(ratings') >= Len(ratings)
       /\ SubSeq(ratings', 1, Len(ratings)) = ratings
       /\ \A booking_id \in DOMAIN bookings :
            LET before == bookings[booking_id]
                after == bookings'[booking_id]
                added == Len(RatingsOf(booking_id)') - Len(RatingsOf(booking_id))
            IN  /\ added \in {0, 1}
                /\ before.driver_rating # 0 => after.driver_rating = before.driver_rating
                /\ before.user_rating # 0 => after.user_rating = before.user_rating
                /\ added = 0 => /\ after.driver_rating = before.driver_rating
                                /\ after.user_rating = before.user_rating
                /\ added = 1 =>
                       /\ before.status = "delivered"
                       /\ \/ /\ before.driver_rating = 0 /\ after.driver_rating # 0
                             /\ after.user_rating = before.user_rating
                          \/ /\ before.user_rating = 0 /\ after.user_rating # 0
                             /\ after.driver_rating = before.driver_rating]_vars

C28_Witness == \E booking_id \in DOMAIN bookings : bookings[booking_id].status = "delivered" /\ bookings[booking_id].driver_rating # 0 /\ bookings[booking_id].user_rating # 0 /\ Len(RatingsOf(booking_id)) = 2

====
